---- MODULE Spec2Model ----
(***************************************************************************)
(* Job orchestration pipeline of the TIKTAP.AI API (src/index.js).         *)
(*                                                                         *)
(* The source file holds two versions of the server: the remote-render     *)
(* version (lines 1-328, Shotstack render + polling) and the local-mux     *)
(* version (lines 346-697, ffprobe/ffmpeg + temp-file sweeper).  The       *)
(* variable "variant" says which of the two programs is running.           *)
(*                                                                         *)
(* Node runs one macrotask at a time: an HTTP handler, a timer callback or *)
(* the continuation of an awaited I/O operation runs to its next await     *)
(* without interleaving, and promise continuations (microtasks) run before *)
(* any other handler.  One action of the model is therefore one such       *)
(* uninterrupted run: the code between two awaits of real I/O.             *)
(***************************************************************************)
EXTENDS Integers, Sequences, FiniteSets, TLC

\* ------------------------------------------------------------------------
\* Bounds of the model
\* ------------------------------------------------------------------------
MaxJobs == 2

JobIds == 1..MaxJobs
\* an id that uuidv4 never handed out: the "unknown job" of the query routes
QueryIds == 1..(MaxJobs + 1)

\* ------------------------------------------------------------------------
\* Program constants
\* ------------------------------------------------------------------------
\* for (let i = 0; i < 60; i++)
MaxAttempts == 60
\* return 30; // Default to 30 seconds
DefaultDuration == 30

Variants == {"remote", "local"}

\* null / undefined / a property the record does not have
Null == "null"
\* optional non-string values: {} is undefined, {v} is the value v
None == {}
Some(v) == {v}

\* ------------------------------------------------------------------------
\* Inputs: request bodies and what the providers can answer
\* ------------------------------------------------------------------------
Requests ==
  { [script |-> "coffee brewing", template |-> "fitness",
     voice |-> "female_1", duration |-> "30s"] }

Scripts == {"Stop scrolling. Coffee."}
AudioBytes == {"mp3-bytes"}
\* content of the downloaded footage file and of ffmpeg's output file
FootageBytes == "footage-bytes"
VideoBytes == "mp4-bytes"
Clip == [id |-> "v1", url |-> "https://pexels/v1.mp4", duration |-> "10"]
\* data.videos.map(...) keeps the length of the result list: zero or more clips
ClipLists == {<< >>, <<Clip>>}
RenderUrls == {"https://shotstack/out.mp4"}
\* statusData.response.status values other than done / failed
PendingReports == {"rendering"}
\* statusData.response of a render-status request
Reports ==
  [status : {"done"}, url : RenderUrls]
    \cup [status : {"failed"} \cup PendingReports, url : {Null}]
\* parseFloat(stdout.trim()) of a successful probe
MeasuredDurations == {12}

\* Error messages (error.message) each awaited call can raise
TransportError == "fetch failed"
ScriptErrors == {"OpenAI error: upstream", TransportError}
VoiceErrors == {"ElevenLabs error: upstream", TransportError}
WriteErrors == {"ENOSPC: no space left on device, write"}
RemoteFootageErrors == {"Pexels error: upstream", TransportError}
LocalFootageErrors ==
  {"Failed to fetch stock footage", "No stock footage found", TransportError}
SubmitErrors == {"Shotstack render error: upstream", TransportError}
PollErrors == {TransportError}
NoClipsError == "No video clips found"
RenderFailedError == "Video rendering failed"
RenderTimeoutError == "Video rendering timed out"
AssemblyError == "Failed to combine audio and video"

\* ------------------------------------------------------------------------
\* State
\* ------------------------------------------------------------------------
VARIABLES
  variant,        \* which version of the server runs
  jobs,           \* const jobs = new Map(): job id -> job record
  pc,             \* per job id: where its processVideo task is suspended
  attempt,        \* per job: the poll loop's i (remote)
  sleeps,         \* per job: setTimeout suspensions its assembleVideo call began
  polls,          \* per job: render-status requests its assembleVideo call made
  report,         \* per job: what the latest render-status request returned
  audioDuration,  \* per job: the last value getAudioDuration returned (local)
  probes,         \* per job: calls of getAudioDuration (local)
  caught,         \* per job: the error the catch block of processVideo caught
  files,          \* TEMP_DIR: path -> [age: "fresh" | "old" (over an hour), data]
  resp            \* the HTTP response sent by the step just taken, if any

vars == <<variant, jobs, pc, attempt, sleeps, polls, report, audioDuration,
          probes, caught, files, resp>>

pipeVars == <<attempt, sleeps, polls, report, audioDuration, probes>>

NoError == [stage |-> "none", message |-> Null]
\* no statusData received (no request yet, or the request itself failed)
NoReport == [status |-> Null, url |-> Null]
NoResp == [op |-> "none"]

\* a step that is no route handler sends no response
Silent == resp' = NoResp

\* ------------------------------------------------------------------------
\* Job records
\* ------------------------------------------------------------------------
StageOrder ==
  <<"generating_script", "generating_voice", "fetching_footage",
    "assembling_video", "completed">>

InitialStatus(v) == IF v = "remote" THEN "queued" ELSE "pending"

\* the job literal of POST /api/videos/create; fields the literal does not
\* set are undefined
NewJob(v, jobId, body, now) ==
  [ id |-> jobId,
    status |-> InitialStatus(v),
    statusMessage |-> IF v = "remote" THEN "Video job created..."
                                      ELSE "Starting video generation...",
    script |-> body.script,
    template |-> body.template,
    voice |-> body.voice,
    duration |-> body.duration,
    createdAt |-> now,
    generatedScript |-> Null,
    hasAudio |-> FALSE,
    audioBuffer |-> Null,
    audioPath |-> Null,
    clips |-> None,
    footagePath |-> Null,
    finalVideoPath |-> Null,
    videoUrl |-> Null ]

AudioPath(jobId) == "./temp/" \o ToString(jobId) \o "-audio.mp3"
FootagePath(jobId) == "./temp/" \o ToString(jobId) \o "-footage.mp4"
FinalPath(jobId) == "./temp/" \o ToString(jobId) \o "-final.mp4"
DownloadUrl(jobId) == "/api/videos/" \o ToString(jobId) \o "/download"

\* (variant of StartScript: create awaits the script stage before it answers)
StartScriptBlocking(v, job) ==
  [job EXCEPT !.generatedScript = "Stop scrolling. Coffee.",
              !.status = "generating_voice",
              !.statusMessage = "Creating AI voiceover..."]

\* Step 1 of processVideo, up to the await of generateScript
StartScript(v, job) ==
  [job EXCEPT !.status = "generating_script",
              !.statusMessage = IF v = "remote"
                                THEN "AI is writing your script..."
                                ELSE "Creating AI script..."]

\* the generated script is stored over the request's topic
StartVoiceOverTopic(job, text) ==
  [job EXCEPT !.script = text,
              !.generatedScript = text,
              !.status = "generating_voice",
              !.statusMessage = "Creating AI voiceover..."]

\* step 2 is entered without the generated script being stored
StartVoiceNoScript(job, text) ==
  [job EXCEPT !.status = "generating_voice",
              !.statusMessage = "Creating AI voiceover..."]

\* generateScript resolved: record the script, enter step 2
StartVoice(job, text) ==
  [job EXCEPT !.generatedScript = text,
              !.status = "generating_voice",
              !.statusMessage = "Creating AI voiceover..."]

\* (variant of RecordAudioBuffer: the hasAudio flag is forgotten)
RecordAudioBufferNoFlag(job, bytes) ==
  [job EXCEPT !.audioBuffer = bytes]

\* generateVoice resolved (remote): keep the buffer in the record
RecordAudioBuffer(job, bytes) ==
  [job EXCEPT !.audioBuffer = bytes, !.hasAudio = TRUE]

\* generateVoice resolved (local): the buffer was written to audioPath
RecordAudioPath(job, path) ==
  [job EXCEPT !.audioPath = path, !.hasAudio = TRUE]

\* (variant of StartFootage: step 3 reuses the status string of step 1)
StartFootageBack(v, job) ==
  [job EXCEPT !.status = "generating_script",
              !.statusMessage = "Finding perfect footage..."]

\* enter step 3
StartFootage(v, job) ==
  [job EXCEPT !.status = "fetching_footage",
              !.statusMessage = IF v = "remote"
                                THEN "Finding perfect video clips..."
                                ELSE "Finding perfect footage..."]

\* fetchStockFootage resolved: record the footage, enter step 4
StartAssemblyRemote(job, clipList) ==
  [job EXCEPT !.clips = Some(clipList),
              !.status = "assembling_video",
              !.statusMessage = "Assembling your video..."]

StartAssemblyLocal(job, path) ==
  [job EXCEPT !.footagePath = path,
              !.status = "assembling_video",
              !.statusMessage = "Assembling your video..."]

\* (variant of CompleteRemote: the returned url is not stored)
CompleteRemoteNoUrl(job, url) ==
  [job EXCEPT !.status = "completed",
              !.statusMessage = "Your video is ready!"]

\* assembleVideo resolved (remote)
CompleteRemote(job, url) ==
  [job EXCEPT !.videoUrl = url,
              !.status = "completed",
              !.statusMessage = "Your video is ready!"]

\* combineAudioVideo resolved (local)
CompleteLocal(job, path) ==
  [job EXCEPT !.finalVideoPath = path,
              !.status = "completed",
              !.statusMessage = "Your video is ready!",
              !.videoUrl = DownloadUrl(job.id)]

\* (variant of Catch: the error's message is dropped)
CatchGeneric(job, message) ==
  [job EXCEPT !.status = "failed",
              !.statusMessage = "Error: something went wrong"]

\* the catch block of processVideo
Catch(job, message) ==
  [job EXCEPT !.status = "failed",
              !.statusMessage = "Error: " \o message]

\* (variant of ClipsOf: an empty result is replaced by a stock clip)
ClipsOfPadded(job) ==
  IF job.clips \in {None, Some(<< >>)} THEN <<Clip>>
  ELSE CHOOSE c \in job.clips : TRUE

\* const clips = job.clips || []
ClipsOf(job) == IF job.clips = None THEN << >> ELSE CHOOSE c \in job.clips : TRUE

\* (variant of LoopCond: off by one)
LoopCondInclusive(i) == i <= MaxAttempts

\* the poll loop's condition
LoopCond(i) == i < MaxAttempts

\* ------------------------------------------------------------------------
\* Temp directory (local variant)
\* ------------------------------------------------------------------------
\* fs.writeFileSync(path, data): the file is new, its mtime is now
WriteFile(fs, path, data) ==
  [p \in DOMAIN fs \cup {path} |->
     IF p = path THEN [age |-> "fresh", data |-> data] ELSE fs[p]]

Exists(fs, path) == path \in DOMAIN fs

\* the files a sweep keeps: stats.mtimeMs < oneHourAgo is unlinked
KeepFile(f) == f.age # "old"

SweepFiles(fs) == [p \in {q \in DOMAIN fs : KeepFile(fs[q])} |-> fs[p]]

\* ------------------------------------------------------------------------
\* Query surface: the response of each GET route in the current state
\* ------------------------------------------------------------------------
\* JavaScript truthiness of a string-or-null value
Truthy(v) == v \notin {Null, ""}

Known(jobId) == jobId \in DOMAIN jobs

\* (variant of NotFound: res.status(404) is forgotten)
NotFoundAs200(text) == [code |-> 200, error |-> text]

NotFound(text) == [code |-> 404, error |-> text]

\* const { audioBuffer, ...jobData } = job
JobData(job) == [f \in DOMAIN job \ {"audioBuffer"} |-> job[f]]

\* res.sendFile(path.resolve(p)): a missing file ends as a 404
SendFile(path) ==
  IF Exists(files, path)
  THEN [code |-> 200, body |-> files[path].data]
  ELSE NotFound("ENOENT")

GetStatus(jobId) ==
  IF ~Known(jobId) THEN NotFound("Job not found")
  ELSE [code |-> 200,
        body |-> IF variant = "remote" THEN JobData(jobs[jobId]) ELSE jobs[jobId]]

GetAudio(jobId) ==
  IF variant = "remote"
  THEN IF ~Known(jobId) \/ ~Truthy(jobs[jobId].audioBuffer)
       THEN NotFound("Audio not found")
       ELSE [code |-> 200, body |-> jobs[jobId].audioBuffer]
  ELSE IF ~Known(jobId) \/ ~Truthy(jobs[jobId].audioPath)
       THEN NotFound("Audio not found")
       ELSE SendFile(jobs[jobId].audioPath)

GetFinal(jobId) ==
  IF variant = "remote"
  THEN IF ~Known(jobId) \/ ~Truthy(jobs[jobId].videoUrl)
       THEN NotFound("Video not ready")
       ELSE [code |-> 302, location |-> jobs[jobId].videoUrl]
  ELSE IF ~Known(jobId) \/ ~Truthy(jobs[jobId].finalVideoPath)
       THEN NotFound("Video not found")
       ELSE SendFile(jobs[jobId].finalVideoPath)

\* ------------------------------------------------------------------------
\* Initial state: a freshly started server
\* ------------------------------------------------------------------------
Init ==
  /\ variant \in Variants
  /\ jobs = << >>
  /\ pc = [j \in JobIds |-> "none"]
  /\ attempt = [j \in JobIds |-> 0]
  /\ sleeps = [j \in JobIds |-> 0]
  /\ polls = [j \in JobIds |-> 0]
  /\ report = [j \in JobIds |-> NoReport]
  /\ audioDuration = [j \in JobIds |-> 0]
  /\ probes = [j \in JobIds |-> 0]
  /\ caught = [j \in JobIds |-> NoError]
  /\ files = << >>
  /\ resp = NoResp

\* ------------------------------------------------------------------------
\* HTTP handlers
\* ------------------------------------------------------------------------
\* uuidv4(): an id no earlier call returned
FreshId == Cardinality(DOMAIN jobs) + 1

\* POST /api/videos/create: jobs.set, then processVideo(jobId) runs to its
\* first await, then res.json
Create(body) ==
  LET jobId == FreshId
      job == NewJob(variant, jobId, body, Cardinality(DOMAIN jobs))
  IN /\ jobId \in JobIds
     /\ jobs' = [k \in DOMAIN jobs \cup {jobId} |->
                   IF k = jobId THEN StartScript(variant, job) ELSE jobs[k]]
     /\ pc' = [pc EXCEPT ![jobId] = "script"]
     /\ resp' = [op |-> "create", code |-> 200, jobId |-> jobId,
                     status |-> InitialStatus(variant)]
     /\ UNCHANGED <<variant, pipeVars, caught, files>>

\* GET /api/videos/:jobId/status
StatusRoute(jobId) ==
  /\ resp' = [op |-> "status", jobId |-> jobId, res |-> GetStatus(jobId)]
  /\ UNCHANGED <<variant, jobs, pc, pipeVars, caught, files>>

\* GET /api/videos/:jobId/audio
AudioRoute(jobId) ==
  /\ resp' = [op |-> "audio", jobId |-> jobId, res |-> GetAudio(jobId)]
  /\ UNCHANGED <<variant, jobs, pc, pipeVars, caught, files>>

\* GET /api/videos/:jobId/download
DownloadRoute(jobId) ==
  /\ resp' = [op |-> "download", jobId |-> jobId, res |-> GetFinal(jobId)]
  /\ UNCHANGED <<variant, jobs, pc, pipeVars, caught, files>>

\* ------------------------------------------------------------------------
\* processVideo: one action per awaited call that settles
\* ------------------------------------------------------------------------
\* (variant of AfterCatch: the pipeline is started over after an error)
AfterCatchRetry == "script"

\* where the task is once the catch block has run: the function returned
AfterCatch == "done"

\* a catch block that marks every unfinished job failed, not only its own
FailAll(j, job, stage, message) ==
  /\ jobs' = [k \in DOMAIN jobs |->
                IF k = j THEN Catch(job, message)
                ELSE IF jobs[k].status \in {"completed", "failed"} THEN jobs[k]
                ELSE Catch(jobs[k], message)]
  /\ pc' = [pc EXCEPT ![j] = AfterCatch]
  /\ caught' = [caught EXCEPT ![j] = [stage |-> stage, message |-> message]]

\* an awaited call rejected in the given stage: the catch block runs
Fail(j, job, stage, message) ==
  /\ jobs' = [jobs EXCEPT ![j] = Catch(job, message)]
  /\ pc' = [pc EXCEPT ![j] = AfterCatch]
  /\ caught' = [caught EXCEPT ![j] = [stage |-> stage, message |-> message]]

\* await generateScript(...)
ScriptSettles(j) ==
  /\ pc[j] = "script"
  /\ \/ \E text \in Scripts :
          /\ jobs' = [jobs EXCEPT ![j] = StartVoice(@, text)]
          /\ pc' = [pc EXCEPT ![j] = "voice"]
          /\ UNCHANGED caught
     \/ \E m \in ScriptErrors : Fail(j, jobs[j], "script", m)
  /\ UNCHANGED <<variant, pipeVars, files>>
  /\ Silent

\* await generateVoice(...), remote: record the buffer, start step 3
VoiceSettlesRemote(j) ==
  /\ variant = "remote"
  /\ pc[j] = "voice"
  /\ \/ \E bytes \in AudioBytes :
          /\ jobs' = [jobs EXCEPT
                        ![j] = StartFootage(variant, RecordAudioBuffer(@, bytes))]
          /\ pc' = [pc EXCEPT ![j] = "footage"]
          /\ UNCHANGED caught
     \/ \E m \in VoiceErrors : Fail(j, jobs[j], "voice", m)
  /\ UNCHANGED <<variant, pipeVars, files>>
  /\ Silent

\* await generateVoice(...), local: write the file, record the path, then
\* await getAudioDuration(audioPath)
VoiceSettlesLocal(j) ==
  /\ variant = "local"
  /\ pc[j] = "voice"
  /\ \/ \E bytes \in AudioBytes :
          /\ files' = WriteFile(files, AudioPath(j), bytes)
          /\ jobs' = [jobs EXCEPT ![j] = RecordAudioPath(@, AudioPath(j))]
          /\ pc' = [pc EXCEPT ![j] = "probe"]
          /\ probes' = [probes EXCEPT ![j] = @ + 1]
          /\ UNCHANGED caught
     \/ \E m \in VoiceErrors \cup WriteErrors :
          /\ Fail(j, jobs[j], "voice", m)
          /\ UNCHANGED <<files, probes>>
  /\ UNCHANGED <<variant, attempt, sleeps, polls, report, audioDuration>>
  /\ Silent

\* getAudioDuration: the measured duration, or 30 when ffprobe fails (it
\* fails for certain when the file is gone)
ProbeResults(path) ==
  (IF Exists(files, path) THEN MeasuredDurations ELSE {}) \cup {DefaultDuration}

\* getAudioDuration without its try/catch: a failed probe rejects and the
\* orchestrator's catch block runs
ProbeSettlesThrowing(j) ==
  /\ variant = "local"
  /\ pc[j] = "probe"
  /\ \/ /\ \E d \in ProbeResults(jobs[j].audioPath) \ {DefaultDuration} :
             audioDuration' = [audioDuration EXCEPT ![j] = d]
        /\ jobs' = [jobs EXCEPT ![j] = StartFootage(variant, @)]
        /\ pc' = [pc EXCEPT ![j] = "footage"]
        /\ UNCHANGED caught
     \/ /\ Fail(j, jobs[j], "voice", "Command failed: ffprobe")
        /\ UNCHANGED audioDuration
  /\ UNCHANGED <<variant, attempt, sleeps, polls, report, probes, files>>
  /\ Silent

\* await getAudioDuration(audioPath) in processVideo (local): start step 3
ProbeSettles(j) ==
  /\ variant = "local"
  /\ pc[j] = "probe"
  /\ \E d \in ProbeResults(jobs[j].audioPath) :
       audioDuration' = [audioDuration EXCEPT ![j] = d]
  /\ jobs' = [jobs EXCEPT ![j] = StartFootage(variant, @)]
  /\ pc' = [pc EXCEPT ![j] = "footage"]
  /\ UNCHANGED <<variant, attempt, sleeps, polls, report, probes, caught,
                 files>>
  /\ Silent

\* assembleVideo returned or threw: its loop variable and the counts of its
\* suspensions and status requests go with its frame
LeaveLoop(j) ==
  /\ attempt' = [attempt EXCEPT ![j] = 0]
  /\ sleeps' = [sleeps EXCEPT ![j] = 0]
  /\ polls' = [polls EXCEPT ![j] = 0]

\* Start of the poll loop's next iteration with loop variable i: either the
\* body starts (the task suspends in setTimeout) or the loop is left and
\* 'Video rendering timed out' is thrown
NextIteration(j, i) ==
  IF LoopCond(i)
  THEN /\ attempt' = [attempt EXCEPT ![j] = i]
       /\ sleeps' = [sleeps EXCEPT ![j] = @ + 1]
       /\ pc' = [pc EXCEPT ![j] = "sleep"]
       /\ UNCHANGED <<jobs, caught, polls>>
  ELSE /\ Fail(j, jobs[j], "assembly", RenderTimeoutError)
       /\ LeaveLoop(j)

\* await fetchStockFootage(script), remote: record the clips, start step 4;
\* assembleVideo throws on an empty list before it submits anything
FootageSettlesRemote(j) ==
  /\ variant = "remote"
  /\ pc[j] = "footage"
  /\ \/ \E clipList \in ClipLists :
          LET job == StartAssemblyRemote(jobs[j], clipList)
          IN IF Len(ClipsOf(job)) = 0
             THEN Fail(j, job, "assembly", NoClipsError)
             ELSE /\ jobs' = [jobs EXCEPT ![j] = job]
                  /\ pc' = [pc EXCEPT ![j] = "render"]
                  /\ UNCHANGED caught
     \/ \E m \in RemoteFootageErrors : Fail(j, jobs[j], "footage", m)
  /\ UNCHANGED <<variant, pipeVars, files>>
  /\ Silent

\* await fetch(.../stage/render) in assembleVideo: the loop starts with i = 0
RenderSettles(j) ==
  /\ variant = "remote"
  /\ pc[j] = "render"
  /\ \/ NextIteration(j, 0)
     \/ /\ \E m \in SubmitErrors : Fail(j, jobs[j], "assembly", m)
        /\ UNCHANGED <<attempt, sleeps, polls>>
  /\ UNCHANGED <<variant, report, audioDuration, probes, files>>
  /\ Silent

\* the 2000 ms timer fires: the render status is requested
SleepEnds(j) ==
  /\ variant = "remote"
  /\ pc[j] = "sleep"
  /\ polls' = [polls EXCEPT ![j] = @ + 1]
  /\ pc' = [pc EXCEPT ![j] = "poll"]
  /\ UNCHANGED <<variant, jobs, attempt, sleeps, report, audioDuration, probes,
                 caught, files>>
  /\ Silent

\* (variant of ReportKind: the else-if for a failed render is missing)
ReportKindNoFailed(status) ==
  IF status = "done" THEN "done" ELSE "pending"

\* the if / else-if on statusData.response.status
ReportKind(status) ==
  IF status = "done" THEN "done"
  ELSE IF status = "failed" THEN "failed"
  ELSE "pending"

\* the status request settles: done returns the url, failed throws, any other
\* status goes round the loop
PollSettles(j) ==
  /\ variant = "remote"
  /\ pc[j] = "poll"
  /\ \/ \E r \in Reports :
          /\ report' = [report EXCEPT ![j] = r]
          /\ CASE ReportKind(r.status) = "done" ->
                    /\ jobs' = [jobs EXCEPT ![j] = CompleteRemote(@, r.url)]
                    /\ pc' = [pc EXCEPT ![j] = "done"]
                    /\ LeaveLoop(j)
                    /\ UNCHANGED caught
               [] ReportKind(r.status) = "failed" ->
                    /\ Fail(j, jobs[j], "assembly", RenderFailedError)
                    /\ LeaveLoop(j)
               [] OTHER -> NextIteration(j, attempt[j] + 1)
     \/ \E m \in PollErrors :
          /\ report' = [report EXCEPT ![j] = NoReport]
          /\ Fail(j, jobs[j], "assembly", m)
          /\ LeaveLoop(j)
  /\ UNCHANGED <<variant, audioDuration, probes, files>>
  /\ Silent

\* combineAudioVideo is handed the duration measured after the voice stage
\* and starts ffmpeg without measuring again
FootageSettlesLocalNoProbe(j) ==
  /\ variant = "local"
  /\ pc[j] = "footage"
  /\ \/ /\ files' = WriteFile(files, FootagePath(j), FootageBytes)
        /\ jobs' = [jobs EXCEPT ![j] = StartAssemblyLocal(@, FootagePath(j))]
        /\ pc' = [pc EXCEPT ![j] = "encode"]
        /\ UNCHANGED <<caught, probes>>
     \/ /\ \E m \in LocalFootageErrors : Fail(j, jobs[j], "footage", m)
        /\ UNCHANGED <<files, probes>>
  /\ UNCHANGED <<variant, attempt, sleeps, polls, report, audioDuration>>
  /\ Silent

\* await fetchStockFootage(...), local: the footage file is written, the path
\* recorded, step 4 starts and combineAudioVideo awaits getAudioDuration
FootageSettlesLocal(j) ==
  /\ variant = "local"
  /\ pc[j] = "footage"
  /\ \/ /\ files' = WriteFile(files, FootagePath(j), FootageBytes)
        /\ jobs' = [jobs EXCEPT ![j] = StartAssemblyLocal(@, FootagePath(j))]
        /\ pc' = [pc EXCEPT ![j] = "probe2"]
        /\ probes' = [probes EXCEPT ![j] = @ + 1]
        /\ UNCHANGED caught
     \/ /\ \E m \in LocalFootageErrors : Fail(j, jobs[j], "footage", m)
        /\ UNCHANGED <<files, probes>>
  /\ UNCHANGED <<variant, attempt, sleeps, polls, report, audioDuration>>
  /\ Silent

\* await getAudioDuration(audioPath) in combineAudioVideo: ffmpeg is started
\* with -t audioDuration
Probe2Settles(j) ==
  /\ variant = "local"
  /\ pc[j] = "probe2"
  /\ \E d \in ProbeResults(jobs[j].audioPath) :
       audioDuration' = [audioDuration EXCEPT ![j] = d]
  /\ pc' = [pc EXCEPT ![j] = "encode"]
  /\ UNCHANGED <<variant, jobs, attempt, sleeps, polls, report, probes, caught,
                 files>>
  /\ Silent

\* ffmpeg can only exit 0 when both of its inputs are there
CanEncode(job) ==
  Exists(files, job.audioPath) /\ Exists(files, job.footagePath)

\* await execPromise(ffmpegCommand): exit 0 leaves the output file, a
\* non-zero exit throws 'Failed to combine audio and video'
EncodeSettles(j) ==
  /\ variant = "local"
  /\ pc[j] = "encode"
  /\ \/ /\ CanEncode(jobs[j])
        /\ files' = WriteFile(files, FinalPath(j), VideoBytes)
        /\ jobs' = [jobs EXCEPT ![j] = CompleteLocal(@, FinalPath(j))]
        /\ pc' = [pc EXCEPT ![j] = "done"]
        /\ UNCHANGED caught
     \/ /\ Fail(j, jobs[j], "assembly", AssemblyError)
        /\ UNCHANGED files
  /\ UNCHANGED <<variant, pipeVars>>
  /\ Silent

\* ------------------------------------------------------------------------
\* Retention sweeper (local variant)
\* ------------------------------------------------------------------------
\* the files a job wrote before it wrote path
WrittenBefore(path) ==
  UNION { IF path = FootagePath(j) THEN {AudioPath(j)}
          ELSE IF path = FinalPath(j) THEN {AudioPath(j), FootagePath(j)}
          ELSE {} : j \in JobIds }

\* time passes: a file's mtime falls behind Date.now() - one hour, after the
\* mtime of every file written before it
Ages(path) ==
  /\ variant = "local"
  /\ Exists(files, path)
  /\ files[path].age = "fresh"
  /\ \A q \in WrittenBefore(path) : Exists(files, q) => files[q].age = "old"
  /\ files' = [files EXCEPT ![path].age = "old"]
  /\ UNCHANGED <<variant, jobs, pc, pipeVars, caught>>
  /\ Silent

\* a sweeper that also clears the path fields of the records whose files it
\* unlinks
SweepClearing ==
  /\ variant = "local"
  /\ files' = SweepFiles(files)
  /\ jobs' = [k \in DOMAIN jobs |->
                [jobs[k] EXCEPT
                   !.audioPath =
                     IF Truthy(@) /\ Exists(files, @) /\ ~Exists(files', @)
                     THEN Null ELSE @,
                   !.finalVideoPath =
                     IF Truthy(@) /\ Exists(files, @) /\ ~Exists(files', @)
                     THEN Null ELSE @]]
  /\ UNCHANGED <<variant, pc, pipeVars, caught>>
  /\ Silent

\* the setInterval callback: every file older than one hour is unlinked
Sweep ==
  /\ variant = "local"
  /\ files' = SweepFiles(files)
  /\ UNCHANGED <<variant, jobs, pc, pipeVars, caught>>
  /\ Silent

\* ------------------------------------------------------------------------
\* Specification
\* ------------------------------------------------------------------------
AllPaths == UNION {{AudioPath(j), FootagePath(j), FinalPath(j)} : j \in JobIds}

Next ==
  \/ \E body \in Requests : Create(body)
  \/ \E id \in QueryIds : StatusRoute(id)
  \/ \E id \in QueryIds : AudioRoute(id)
  \/ \E id \in QueryIds : DownloadRoute(id)
  \/ \E j \in JobIds : ScriptSettles(j)
  \/ \E j \in JobIds : VoiceSettlesRemote(j)
  \/ \E j \in JobIds : VoiceSettlesLocal(j)
  \/ \E j \in JobIds : ProbeSettles(j)
  \/ \E j \in JobIds : FootageSettlesRemote(j)
  \/ \E j \in JobIds : FootageSettlesLocal(j)
  \/ \E j \in JobIds : RenderSettles(j)
  \/ \E j \in JobIds : SleepEnds(j)
  \/ \E j \in JobIds : PollSettles(j)
  \/ \E j \in JobIds : Probe2Settles(j)
  \/ \E j \in JobIds : EncodeSettles(j)
  \/ \E path \in AllPaths : Ages(path)
  \/ Sweep

Spec == Init /\ [][Next]_vars

\* the continuation of job j's processVideo task: whichever awaited call it
\* is suspended in settles
PipelineStep(j) ==
  \/ ScriptSettles(j)
  \/ VoiceSettlesRemote(j)
  \/ VoiceSettlesLocal(j)
  \/ ProbeSettles(j)
  \/ FootageSettlesRemote(j)
  \/ FootageSettlesLocal(j)
  \/ RenderSettles(j)
  \/ SleepEnds(j)
  \/ PollSettles(j)
  \/ Probe2Settles(j)
  \/ EncodeSettles(j)

\* every awaited call (request, probe, encode, timer) eventually resolves or
\* rejects, and the event loop then runs the task's continuation
\* the steps that write the store, the task positions or the files: the
\* routes of Next only read them and write the response
WritingNext ==
  \/ \E body \in Requests : Create(body)
  \/ \E j \in JobIds : PipelineStep(j)
  \/ \E path \in AllPaths : Ages(path)
  \/ Sweep

LiveSpec ==
  /\ Init
  /\ [][WritingNext]_vars
  /\ \A j \in JobIds : WF_vars(PipelineStep(j))

\* ========================================================================
\* Properties
\* ========================================================================
Terminal == {"completed", "failed"}
Statuses == {"queued", "pending", "failed"} \cup {StageOrder[i] : i \in 1..Len(StageOrder)}
Routes == {"status", "audio", "download"}
Stages == <<"script", "voice", "footage", "assembly">>

\* position of a non-failed status in the stage order; queued/pending first
Rank(status) ==
  IF status \in {"queued", "pending"} THEN 0
  ELSE CHOOSE i \in 1..Len(StageOrder) : StageOrder[i] = status

\* the status a status poll of job j reports
Seen(j) == GetStatus(j).body.status

\* status b may be polled after status a
Forward(a, b) ==
  \/ a = b
  \/ /\ a \notin Terminal
     /\ \/ b = "failed"
        \/ Rank(b) > Rank(a)

\* the artifact fields a stage fills in
ArtifactUnset(job, stage) ==
  CASE stage = "script" -> job.generatedScript = Null
    [] stage = "voice" ->
         job.audioBuffer = Null /\ job.audioPath = Null /\ job.hasAudio = FALSE
    [] stage = "footage" -> job.clips = None /\ job.footagePath = Null
    [] stage = "assembly" -> job.videoUrl = Null /\ job.finalVideoPath = Null

StageIndex(stage) == CHOOSE i \in 1..Len(Stages) : Stages[i] = stage

\* the artifacts of the stage and of every later stage are unset
UnsetFrom(job, stage) ==
  \A i \in StageIndex(stage)..Len(Stages) : ArtifactUnset(job, Stages[i])

\* ------------------------------------------------------------------------
\* C1: the status a poll reports for a job only ever stays, moves to a later
\* stage of queued/pending -> generating_script -> generating_voice ->
\* fetching_footage -> assembling_video -> completed, or becomes failed, and
\* failed is entered only from a status that is not terminal.
C1_StatusOrder ==
  [][\A j \in DOMAIN jobs :
       /\ Seen(j)' \in Statuses
       /\ Forward(Seen(j), Seen(j)')]_vars

\* a poll sees a completed job while another job has failed
C1_Witness ==
  /\ resp.op = "status"
  /\ resp.res.code = 200
  /\ resp.res.body.status = "completed"
  /\ \E k \in DOMAIN jobs : jobs[k].status = "failed"

\* ------------------------------------------------------------------------
\* C2: when an awaited stage call fails, the job is failed for good, its
\* statusMessage carries the message of the error that was caught, and the
\* artifacts of the failing stage and of every later stage are unset.
C2_FailureRecorded ==
  \A j \in DOMAIN jobs :
    caught[j] # NoError =>
      /\ jobs[j].status = "failed"
      /\ pc[j] = "done"
      /\ jobs[j].statusMessage = "Error: " \o caught[j].message
      /\ UnsetFrom(jobs[j], caught[j].stage)

\* the footage stage failed after script and voice had succeeded
C2_Witness ==
  \E j \in DOMAIN jobs :
    /\ caught[j].stage = "footage"
    /\ jobs[j].hasAudio
    /\ jobs[j].generatedScript # Null

\* ------------------------------------------------------------------------
\* C3: once a job is completed or failed, no step changes its record.
C3_TerminalImmutable ==
  [][\A j \in DOMAIN jobs :
       jobs[j].status \in Terminal => jobs'[j] = jobs[j]]_vars

\* a completed job whose final file the sweeper has removed, next to a
\* failed job
C3_Witness ==
  /\ \E j \in DOMAIN jobs :
       /\ jobs[j].status = "completed"
       /\ jobs[j].finalVideoPath # Null
       /\ ~Exists(files, jobs[j].finalVideoPath)
  /\ \E k \in DOMAIN jobs : jobs[k].status = "failed"

\* ------------------------------------------------------------------------
\* C4: the step that registers a job answers {jobId, queued/pending} while
\* the job's pipeline is suspended in its first adapter call: no artifact is
\* set, nothing was caught.
C4_CreateAnswersFirst ==
  [][\A j \in JobIds :
       (j \notin DOMAIN jobs /\ j \in DOMAIN jobs') =>
         /\ resp' = [op |-> "create", code |-> 200, jobId |-> j,
                     status |-> InitialStatus(variant)]
         /\ resp'.status \in {"queued", "pending"}
         /\ pc'[j] = "script"
         /\ caught'[j] = NoError
         /\ UnsetFrom(jobs'[j], "script")]_vars

\* the response of a create issued while an earlier job is further on
C4_Witness ==
  /\ resp.op = "create"
  /\ resp.status = InitialStatus(variant)
  /\ pc[resp.jobId] = "script"
  /\ \E k \in DOMAIN jobs : k # resp.jobId /\ pc[k] # "script"

\* the audio artifact is in the job record
AudioRecorded(job) ==
  IF variant = "remote" THEN job.audioBuffer # Null ELSE job.audioPath # Null

\* what the audio reference points to still exists
AudioAvailable(job) == variant = "remote" \/ Exists(files, job.audioPath)

\* the final artifact reference is in the job record
FinalRecorded(job) ==
  IF variant = "remote" THEN Truthy(job.videoUrl) ELSE Truthy(job.finalVideoPath)

\* positions of processVideo before / after the voice stage has completed
BeforeVoiceDone == {"script", "voice"}
AfterVoiceDone == {"probe", "footage", "render", "sleep", "poll", "probe2", "encode"}

\* ------------------------------------------------------------------------
\* C5: hasAudio is true exactly when the audio artifact is recorded; it is
\* false until the voice stage has completed and true from then on; getAudio
\* answers not-found while it is false and the synthesized audio while it is
\* true, whatever the job's status, as long as (local) the file is there.
C5_AudioRetrieval ==
  \A j \in DOMAIN jobs :
    /\ jobs[j].hasAudio <=> AudioRecorded(jobs[j])
    /\ pc[j] \in BeforeVoiceDone => ~jobs[j].hasAudio
    /\ pc[j] \in AfterVoiceDone => jobs[j].hasAudio
    /\ jobs[j].status = "completed" => jobs[j].hasAudio
    /\ ~jobs[j].hasAudio => GetAudio(j).code = 404
    /\ (jobs[j].hasAudio /\ AudioAvailable(jobs[j])) =>
         /\ GetAudio(j).code = 200
         /\ GetAudio(j).body \in AudioBytes

\* getAudio answers with the audio of a job that failed after the voice stage
C5_Witness ==
  /\ resp.op = "audio"
  /\ resp.res.code = 200
  /\ jobs[resp.jobId].status = "failed"

\* ------------------------------------------------------------------------
\* C6: getFinal answers not-found for every job that is not completed; a
\* completed job has a non-empty final artifact reference, and getFinal
\* redirects to it (remote) or sends the file while it exists (local).
C6_FinalRetrieval ==
  \A j \in DOMAIN jobs :
    /\ jobs[j].status # "completed" => GetFinal(j).code = 404
    /\ jobs[j].status = "completed" =>
         /\ FinalRecorded(jobs[j])
         /\ variant = "remote" =>
              /\ jobs[j].videoUrl = report[j].url
              /\ GetFinal(j) = [code |-> 302, location |-> report[j].url]
         /\ (variant = "local" /\ Exists(files, jobs[j].finalVideoPath)) =>
              GetFinal(j) = [code |-> 200, body |-> VideoBytes]

\* getFinal redirects to the rendered video of a completed job
C6_Witness ==
  /\ resp.op = "download"
  /\ resp.res.code = 302
  /\ jobs[resp.jobId].status = "completed"

\* ------------------------------------------------------------------------
\* C7: a status, audio or download request for an id that is not in the
\* store is answered not-found and changes neither the store nor anything
\* else of the server's state.
C7_UnknownJobNotFound ==
  [][(resp'.op \in Routes /\ resp'.jobId \notin DOMAIN jobs') =>
       /\ resp'.res.code = 404
       /\ UNCHANGED <<variant, jobs, pc, pipeVars, caught, files>>]_vars

\* an audio request for an unknown id while the store holds running jobs
C7_Witness ==
  /\ resp.op = "audio"
  /\ resp.jobId \notin DOMAIN jobs
  /\ resp.res.code = 404
  /\ \E k \in DOMAIN jobs : pc[k] = "footage"

\* ------------------------------------------------------------------------
\* C8: the render service is polled at most 60 times per job, every poll
\* directly follows a suspension of its own, a 60th poll that reports
\* neither done nor failed fails the job with 'Video rendering timed out',
\* that message arises in no other way, and no poll follows.
C8_PollBudget ==
  /\ [](\A j \in JobIds :
          /\ polls[j] <= MaxAttempts
          /\ polls[j] <= sleeps[j]
          /\ pc[j] = "poll" => polls[j] = sleeps[j]
          /\ pc[j] = "sleep" => sleeps[j] = polls[j] + 1)
  /\ [][\A j \in JobIds :
          /\ polls'[j] = polls[j] + 1 =>
               (pc[j] = "sleep" /\ sleeps[j] = polls[j] + 1)
          /\ ( /\ pc[j] = "poll"
               /\ pc'[j] # "poll"
               /\ polls[j] = MaxAttempts
               /\ report'[j].status \in PendingReports ) =>
               /\ jobs'[j].status = "failed"
               /\ jobs'[j].statusMessage = "Error: Video rendering timed out"
               /\ pc'[j] = "done"
          /\ (caught[j] = NoError /\ caught'[j].message = RenderTimeoutError) =>
               (pc[j] = "poll" /\ polls[j] = MaxAttempts)
          /\ pc[j] = "done" => (pc'[j] = "done" /\ polls'[j] = polls[j])]_vars

\* a job that failed with the timeout message
C8_Witness ==
  \E j \in DOMAIN jobs :
    /\ jobs[j].status = "failed"
    /\ jobs[j].statusMessage = "Error: Video rendering timed out"
    /\ report[j].status \in PendingReports

\* ------------------------------------------------------------------------
\* C9: a poll that reports done completes the job with the reported url, a
\* poll that reports failed fails it with 'Video rendering failed', either
\* ends polling; any other report leads to another suspension and poll
\* while attempts remain.
C9_PollOutcome ==
  /\ [](\A j \in DOMAIN jobs :
          /\ report[j].status = "done" =>
               /\ jobs[j].status = "completed"
               /\ jobs[j].videoUrl = report[j].url
               /\ pc[j] = "done"
          /\ report[j].status = "failed" =>
               /\ jobs[j].status = "failed"
               /\ jobs[j].statusMessage = "Error: Video rendering failed"
               /\ pc[j] = "done"
          /\ (report[j].status \in PendingReports /\ pc[j] # "done") =>
               /\ pc[j] \in {"sleep", "poll"}
               /\ jobs[j].status = "assembling_video")
  /\ [][\A j \in DOMAIN jobs :
          /\ ( /\ pc[j] = "poll"
               /\ pc'[j] # "poll"
               /\ report'[j].status \in PendingReports
               /\ polls[j] < MaxAttempts ) =>
               (pc'[j] = "sleep" /\ jobs'[j] = jobs[j])
          /\ polls'[j] > polls[j] =>
               report[j].status \notin {"done", "failed"}]_vars

\* one job's render was reported done, another's failed
C9_Witness ==
  \E j, k \in DOMAIN jobs :
    /\ report[j].status = "done"
    /\ report[k].status = "failed"
    /\ jobs[j].status = "completed"

\* ------------------------------------------------------------------------
\* the footage search of job j came back empty
ZeroResults(j) ==
  IF variant = "remote" THEN jobs[j].clips = Some(<< >>)
  ELSE caught[j].message = "No stock footage found"

NotFoundMessages ==
  {"Error: No video clips found", "Error: No stock footage found"}

\* C10 as stated: after an empty footage result the job is failed with a
\* not-found message and getAudio returns the audio, in every later state.
C10_AsStated ==
  \A j \in DOMAIN jobs :
    ZeroResults(j) =>
      /\ jobs[j].status = "failed"
      /\ jobs[j].statusMessage \in NotFoundMessages
      /\ GetAudio(j).code = 200
      /\ GetAudio(j).body \in AudioBytes

\* C10: after an empty footage result the job is failed with a not-found
\* message, its record keeps the audio, and getAudio returns the audio as
\* long as (local) the sweeper has not removed the audio file.
C10_ZeroFootage ==
  \A j \in DOMAIN jobs :
    ZeroResults(j) =>
      /\ jobs[j].status = "failed"
      /\ pc[j] = "done"
      /\ jobs[j].statusMessage \in NotFoundMessages
      /\ jobs[j].hasAudio
      /\ AudioRecorded(jobs[j])
      /\ AudioAvailable(jobs[j]) =>
           /\ GetAudio(j).code = 200
           /\ GetAudio(j).body \in AudioBytes

\* getAudio answers with the audio of a job whose footage search was empty
C10_Witness ==
  /\ resp.op = "audio"
  /\ resp.res.code = 200
  /\ ZeroResults(resp.jobId)

\* ------------------------------------------------------------------------
\* C11: when every awaited call eventually settles, every registered job
\* eventually is completed or failed with its pipeline ended, and stays so;
\* nothing takes a pipeline out of a non-terminal status but its own steps.
C11_Terminates ==
  \A j \in JobIds :
    [](pc[j] # "none" => <>[](pc[j] = "done" /\ jobs[j].status \in Terminal))

\* both pipelines have ended, one after a full poll budget
C11_Witness ==
  /\ \A j \in JobIds : pc[j] = "done" /\ jobs[j].status \in Terminal
  /\ \E j \in JobIds : caught[j].message = RenderTimeoutError

\* ------------------------------------------------------------------------
\* C12: a step that changes the record of a job is a step of that job's own
\* pipeline, and it leaves the record of every other job as it was; this
\* includes the step in which a pipeline fails.
C12_Isolation ==
  [][\A k \in DOMAIN jobs :
       jobs'[k] # jobs[k] =>
         /\ PipelineStep(k)
         /\ \A other \in DOMAIN jobs \ {k} : jobs'[other] = jobs[other]]_vars

\* one job has failed while the other, registered before the failure, has
\* moved on past the stage the first one failed in and is still running
C12_Witness ==
  \E a \in DOMAIN jobs : \E b \in DOMAIN jobs \ {a} :
    /\ jobs[a].status = "failed"
    /\ caught[a].stage = "voice"
    /\ jobs[b].status = "assembling_video"
    /\ pc[b] \notin {"none", "done"}

\* ------------------------------------------------------------------------
\* C13: (local) a step that removes a file changes no job record; and once
\* the file behind a completed job is gone, the status route still answers
\* completed while the audio / download route for that file answers 404.
C13_SweeperFrame ==
  /\ [][(\E p \in DOMAIN files : p \notin DOMAIN files') => jobs' = jobs]_vars
  /\ [](\A j \in DOMAIN jobs :
          (variant = "local" /\ jobs[j].status = "completed") =>
            /\ GetStatus(j).code = 200
            /\ GetStatus(j).body.status = "completed"
            /\ GetStatus(j).body.finalVideoPath = FinalPath(j)
            /\ (resp.op = "status" /\ resp.jobId = j) =>
                 resp.res = GetStatus(j)
            /\ (resp.op = "audio" /\ resp.jobId = j
                  /\ ~Exists(files, AudioPath(j))) => resp.res.code = 404
            /\ (resp.op = "download" /\ resp.jobId = j
                  /\ ~Exists(files, FinalPath(j))) => resp.res.code = 404)

\* the download route has just answered 404 for a completed job whose final
\* file the sweeper removed
C13_Witness ==
  /\ variant = "local"
  /\ resp.op = "download"
  /\ resp.res.code = 404
  /\ resp.jobId \in DOMAIN jobs
  /\ jobs[resp.jobId].status = "completed"
  /\ jobs[resp.jobId].finalVideoPath = FinalPath(resp.jobId)
  /\ ~Exists(files, FinalPath(resp.jobId))

\* ------------------------------------------------------------------------
\* C14: no step removes a job from the store or changes a stored job's id,
\* topic, template, voice, duration or creation time; and the id a create
\* call answers with was not in the store before and keys the new record.
RequestFields == {"id", "script", "template", "voice", "duration", "createdAt"}

C14_IdentityKept ==
  [][/\ DOMAIN jobs \subseteq DOMAIN jobs'
     /\ \A j \in DOMAIN jobs :
          \A f \in RequestFields : jobs'[j][f] = jobs[j][f]
     /\ resp'.op = "create" =>
          /\ resp'.jobId \notin DOMAIN jobs
          /\ resp'.jobId \in DOMAIN jobs'
          /\ jobs'[resp'.jobId].id = resp'.jobId
          /\ \A j \in DOMAIN jobs : jobs[j].id # resp'.jobId]_vars

\* two jobs with different ids and creation times, both through all stages
C14_Witness ==
  /\ DOMAIN jobs = JobIds
  /\ \A j \in JobIds : jobs[j].status = "completed" /\ jobs[j].id = j
  /\ \A j \in JobIds : [f \in RequestFields \ {"id", "createdAt"} |-> jobs[j][f]]
                         \in {[f \in RequestFields \ {"id", "createdAt"} |-> r[f]] :
                                r \in Requests}
  /\ jobs[1].createdAt # jobs[2].createdAt

\* ------------------------------------------------------------------------
\* C15: the stage adapter a task is in only moves forward one stage at a
\* time, so each adapter is invoked at most once per job; the next adapter is
\* invoked only with no error caught and the artifact of the stage before
\* recorded; once an error is caught the task has ended, no adapter is
\* invoked again, and failed is written in that one step only.
StagePos(p) ==
  CASE p = "none" -> 0
    [] p = "script" -> 1
    [] p \in {"voice", "probe"} -> 2
    [] p = "footage" -> 3
    [] p \in {"render", "sleep", "poll", "probe2", "encode"} -> 4
    [] p = "done" -> 5

C15_NoRetry ==
  [][\A j \in JobIds :
       /\ StagePos(pc'[j]) >= StagePos(pc[j])
       /\ (StagePos(pc'[j]) > StagePos(pc[j]) /\ pc'[j] # "done") =>
            /\ StagePos(pc'[j]) = StagePos(pc[j]) + 1
            /\ caught[j] = NoError
            /\ caught'[j] = NoError
            /\ jobs'[j].status # "failed"
            /\ \A i \in 1..StagePos(pc[j]) : ~ArtifactUnset(jobs'[j], Stages[i])
       /\ caught[j] # NoError =>
            /\ pc[j] = "done"
            /\ pc'[j] = "done"
            /\ caught'[j] = caught[j]
            /\ jobs'[j] = jobs[j]
       /\ (j \in DOMAIN jobs /\ jobs[j].status # "failed"
             /\ jobs'[j].status = "failed") =>
            /\ caught[j] = NoError
            /\ caught'[j] # NoError
            /\ pc'[j] = "done"]_vars

\* a task ended by an error of the footage adapter, with the script and the
\* audio recorded and nothing of the later stages
C15_Witness ==
  \E j \in DOMAIN jobs :
    /\ caught[j].stage = "footage"
    /\ pc[j] = "done"
    /\ jobs[j].status = "failed"
    /\ ~ArtifactUnset(jobs[j], "script")
    /\ ~ArtifactUnset(jobs[j], "voice")
    /\ UnsetFrom(jobs[j], "footage")

\* ------------------------------------------------------------------------
\* stage number i (1..4) of job j returned without raising
StageSucceeded(j, i) ==
  \/ pc[j] # "done" /\ StagePos(pc[j]) > i
  \/ pc[j] = "probe" /\ i = 2
  \/ /\ pc[j] = "done"
     /\ \/ caught[j] = NoError
        \/ StageIndex(caught[j].stage) > i

\* C16: an artifact field of a job is set only if the stage that produces it
\* has succeeded with a usable result: the generated script after the script
\* stage, the audio and hasAudio after the voice stage, clips / footagePath
\* after a footage stage that produced at least one clip, the final artifact
\* after assembly.
C16_AsStated ==
  \A j \in DOMAIN jobs :
    /\ ~ArtifactUnset(jobs[j], "script") => StageSucceeded(j, 1)
    /\ (jobs[j].hasAudio \/ AudioRecorded(jobs[j])) => StageSucceeded(j, 2)
    /\ ~ArtifactUnset(jobs[j], "footage") =>
         /\ StageSucceeded(j, 3)
         /\ variant = "remote" => Len(ClipsOf(jobs[j])) >= 1
         /\ variant = "local" => jobs[j].footagePath = FootagePath(j)
    /\ ~ArtifactUnset(jobs[j], "assembly") =>
         /\ StageSucceeded(j, 4)
         /\ jobs[j].status = "completed"

\* ------------------------------------------------------------------------
\* C17: when the footage search comes back empty, the error is raised in the
\* footage stage: the job is failed with the footage stage's error caught,
\* the stage's artifact unset, and assembly never started.
C17_AsStated ==
  \A j \in DOMAIN jobs :
    ZeroResults(j) =>
      /\ jobs[j].status = "failed"
      /\ pc[j] = "done"
      /\ caught[j].stage = "footage"
      /\ UnsetFrom(jobs[j], "footage")

\* ------------------------------------------------------------------------
\* C18: when create has answered {jobId, status}, the stored record of that
\* job has the answered status (queued / pending) until the pipeline's first
\* asynchronous step.
C18_AsStated ==
  resp.op = "create" =>
    /\ resp.jobId \in DOMAIN jobs
    /\ pc[resp.jobId] = "script" => jobs[resp.jobId].status = resp.status

\* ------------------------------------------------------------------------
\* the positions a task can be suspended in while its job shows the status
AwaitedIn(status) ==
  CASE status = "generating_script" -> {"script"}
    [] status = "generating_voice" ->
         IF variant = "remote" THEN {"voice"} ELSE {"voice", "probe"}
    [] status = "fetching_footage" -> {"footage"}
    [] status = "assembling_video" ->
         IF variant = "remote" THEN {"render", "sleep", "poll"}
         ELSE {"probe2", "encode"}
    [] OTHER -> {"done"}

\* C19 as stated: the remote variant never probes; the local variant probes
\* once, after the voice stage and before the footage stage, and no probe
\* runs in the footage or the assembly stage.
C19_AsStated ==
  \A j \in DOMAIN jobs :
    /\ pc[j] \in AwaitedIn(jobs[j].status)
    /\ variant = "remote" => probes[j] = 0
    /\ variant = "local" =>
         /\ probes[j] <= 1
         /\ probes[j] = 1 => pc[j] \notin {"script", "voice"}
         /\ jobs[j].status \in {"fetching_footage", "assembling_video"} =>
              pc[j] \notin {"probe", "probe2"}

\* C19: each stage awaits one adapter; the remote variant never probes; the
\* local variant probes the audio duration once between the voice adapter's
\* return and the start of the footage stage, and once more inside the
\* assembly stage before the encode; no probe runs in the footage stage.
C19_Probes ==
  \A j \in DOMAIN jobs :
    /\ pc[j] \in AwaitedIn(jobs[j].status)
    /\ variant = "remote" => probes[j] = 0 /\ pc[j] \notin {"probe", "probe2"}
    /\ variant = "local" =>
         /\ pc[j] \in {"script", "voice"} => probes[j] = 0
         /\ pc[j] = "probe" =>
              /\ probes[j] = 1
              /\ jobs[j].status = "generating_voice"
              /\ jobs[j].hasAudio
         /\ pc[j] = "footage" => probes[j] = 1
         /\ pc[j] = "probe2" =>
              /\ probes[j] = 2
              /\ jobs[j].status = "assembling_video"
              /\ jobs[j].footagePath = FootagePath(j)
         /\ pc[j] = "encode" => probes[j] = 2
         /\ pc[j] = "done" =>
              /\ jobs[j].status = "completed" => probes[j] = 2
              /\ caught[j].stage = "assembly" => probes[j] = 2
              /\ caught[j].stage = "footage" => probes[j] = 1
              /\ caught[j].stage \in {"script", "voice"} => probes[j] = 0

\* one job is in its second probe, inside the assembly stage, while another
\* is in its first, before the footage stage
C19_Witness ==
  \E j \in DOMAIN jobs : \E k \in DOMAIN jobs :
    /\ pc[j] = "probe2"
    /\ probes[j] = 2
    /\ jobs[j].status = "assembling_video"
    /\ pc[k] = "probe"
    /\ probes[k] = 1

\* ------------------------------------------------------------------------
\* C20: (local) a probe never fails the job: the step in which a probe
\* settles moves the task on to the footage search / the encode with no error
\* caught, with 30 as the duration whenever the audio file cannot be probed;
\* an assembly stage fails only in the step in which the encode settles, with
\* the encode's message.
C20_ProbeNeverFails ==
  /\ [][\A j \in DOMAIN jobs :
          /\ (pc[j] \in {"probe", "probe2"} /\ pc'[j] # pc[j]) =>
               /\ pc'[j] = IF pc[j] = "probe" THEN "footage" ELSE "encode"
               /\ jobs'[j].status \notin Terminal
               /\ caught'[j] = NoError
               /\ audioDuration'[j] \in MeasuredDurations \cup {30}
               /\ ~Exists(files, AudioPath(j)) => audioDuration'[j] = 30
          /\ (variant = "local" /\ jobs[j].status = "assembling_video"
                /\ jobs'[j].status = "failed") =>
               /\ pc[j] = "encode"
               /\ caught'[j].message = "Failed to combine audio and video"]_vars
  /\ [](\A j \in DOMAIN jobs :
          (variant = "local" /\ caught[j].stage = "assembly") =>
            jobs[j].statusMessage = "Error: Failed to combine audio and video")

\* a job is completed, its final file written, after its last probe failed
\* although the audio file was there: the encode ran with -t 30
C20_Witness ==
  \E j \in DOMAIN jobs :
    /\ variant = "local"
    /\ jobs[j].status = "completed"
    /\ probes[j] = 2
    /\ audioDuration[j] = 30
    /\ audioDuration[j] \notin MeasuredDurations
    /\ Exists(files, AudioPath(j))
    /\ Exists(files, FinalPath(j))

\* ------------------------------------------------------------------------
\* the artifact of a stage is in the record r (a stored job, or the body of a
\* status answer, which in the remote variant leaves the audio bytes out)
ArtifactSet(r, stage) ==
  CASE stage = "script" -> Truthy(r.generatedScript)
    [] stage = "voice" ->
         /\ r.hasAudio
         /\ "audioBuffer" \in DOMAIN r => AudioRecorded(r)
    [] stage = "footage" ->
         IF variant = "remote"
         THEN r.clips # None /\ Len(ClipsOf(r)) >= 1
         ELSE Truthy(r.footagePath)
    [] stage = "assembly" -> FinalRecorded(r)

\* every stage before the one the record's status names has its artifact
\* in the record; completed comes after all four stages
EarlierArtifactsSet(r) ==
  r.status \notin {"failed", "queued", "pending"} =>
    \A i \in 1..(Rank(r.status) - 1) : ArtifactSet(r, Stages[i])

\* C21: in every state between two steps, and in every answer of the status
\* route, a job whose status is not failed has the artifact of every stage
\* before that status recorded: the script from generating_voice on, the
\* audio from fetching_footage on, the footage from assembling_video on, and
\* all four artifacts when completed.
C21_ArtifactsBehindStatus ==
  /\ \A j \in DOMAIN jobs :
       /\ EarlierArtifactsSet(jobs[j])
       /\ jobs[j].status = "completed" =>
            \A i \in 1..Len(Stages) : ArtifactSet(jobs[j], Stages[i])
  /\ (resp.op = "status" /\ resp.res.code = 200) =>
       /\ EarlierArtifactsSet(resp.res.body)
       /\ resp.res.body.status = jobs[resp.jobId].status

\* the status route has just answered assembling_video for one job, with its
\* script, audio flag and footage in the answer, while another job is completed
C21_Witness ==
  /\ resp.op = "status"
  /\ resp.res.code = 200
  /\ resp.res.body.status = "assembling_video"
  /\ ArtifactSet(resp.res.body, "footage")
  /\ ~FinalRecorded(resp.res.body)
  /\ \E k \in DOMAIN jobs : jobs[k].status = "completed"

====
